---- MODULE Spec2Model ----
(***************************************************************************)
(* A model of the snake game of src/main.rs: the ECS world (head and body  *)
(* entities with their Position and SnakeHead components, food items),     *)
(* the SnakeSegments and LastTailPosition resources, the two event         *)
(* channels, the deferred command buffers, and the systems of one fixed    *)
(* tick as the scheduler may order them.                                   *)
(***************************************************************************)
EXTENDS Integers, Sequences, FiniteSets, Bags

VARIABLES
    world,               \* Entity -> components of the live snake entities
    segments,            \* SnakeSegments.0 : Vec<Entity>
    foods,               \* bag of the Positions of the live Food entities
    last_tail_position,  \* LastTailPosition.0 : Option<Position>
    growth_events,       \* GrowthEvents in Events<GrowthEvent>
    growth_reader,       \* how many of them snake_growth's reader has passed
    game_over_events,    \* GameOverEvents in Events<GameOverEvent>
    game_over_reader,    \* how many of them game_over's reader has passed
    commands,            \* the command buffers not yet applied to the world
    ran,                 \* the systems of the fixed tick that ran in this pass
    ticks,               \* fixed ticks started so far
    panicked,            \* an unwrap() hit None: the process aborted
    probe                \* the last input read observed: heading before, keys held

vars == <<world, segments, foods, last_tail_position, growth_events,
          growth_reader, game_over_events, game_over_reader, commands, ran,
          ticks, panicked, probe>>

----------------------------------------------------------------------------
(* Bounds of the model *)

MaxTicks == 5
MaxLen == 5
MaxFood == 2

(* Program constants *)

ARENA_WIDTH == 10
ARENA_HEIGHT == 10
START_X == 3
START_Y == 3
BODY_Y == 2
MANTISSA_BITS == 24

----------------------------------------------------------------------------
(* Data *)

Direction == {"Left", "Up", "Right", "Down"}

KeyCode == {"Left", "Right", "Up", "Down"}

Position(px, py) == [x |-> px, y |-> py]

None == [x |-> -1, y |-> -1]

Some(p) == p

MaxEntity == MaxLen + 4

Entity == 1 .. MaxEntity

NoEntity == [kind |-> "none", pos |-> None, direction |-> "none"]

SnakeHead(p, d) == [kind |-> "SnakeHead", pos |-> p, direction |-> d]

SnakeBody(p) == [kind |-> "SnakeBody", pos |-> p, direction |-> "none"]

NoCommands == [despawn |-> {}, despawn_food |-> {}, spawn |-> {}]

Systems == {"movement", "eating", "growth", "game_over"}

NoProbe == [before |-> "none", keys |-> {}]

----------------------------------------------------------------------------
(* Queries over the world *)

Live(w) == {e \in Entity : w[e].kind # "none"}

Heads(w) == {e \in Entity : w[e].kind = "SnakeHead"}

Bodies(w) == {e \in Entity : w[e].kind = "SnakeBody"}

Min(S) == CHOOSE e \in S : \A f \in S : e <= f

(* Entities::reserve_entity: an id that is neither live nor already reserved
   by a queued spawn. *)
Reserved(cmds) == {s.ent : s \in cmds.spawn}

ReserveEntity(w, cmds) == Min(Entity \ (Live(w) \cup Reserved(cmds)))

Range(s) == {s[i] : i \in 1 .. Len(s)}

FoodCount(fs) == BagCardinality(fs)

FoodAt(fs, p) == IF p \in DOMAIN fs THEN fs[p] ELSE 0

----------------------------------------------------------------------------
(* Arithmetic of the target: i32 remainder, f32 product and cast *)

(* Rust's % on i32 truncates toward zero: the result has the dividend's sign. *)
RustRem(a, b) == IF a >= 0 THEN a % b ELSE -((-a) % b)

RECURSIVE Pow2(_)
Pow2(n) == IF n = 0 THEN 1 ELSE 2 * Pow2(n - 1)

(* The unit of the last place of an f32 holding p / 2^24, in units of 2^-24:
   an f32 keeps 24 significant bits. *)
RECURSIVE Ulp(_, _)
Ulp(p, g) == IF p < Pow2(MANTISSA_BITS) * g THEN g ELSE Ulp(p, 2 * g)

RoundHalfEven(p, g) ==
    LET q == p \div g
        r == p % g
    IN  IF 2 * r < g THEN q * g
        ELSE IF 2 * r > g THEN (q + 1) * g
        ELSE IF q % 2 = 0 THEN q * g
        ELSE (q + 1) * g

(* (random::<f32>() * bound as f32) as i32, where random::<f32>() is
   raw / 2^24 for a 24-bit raw: the product rounded to f32, then truncated. *)
(* The cast rounding to the nearest integer instead of truncating. *)
RandomCellNearest(raw, bound) ==
    (RoundHalfEven(raw * bound, Ulp(raw * bound, 1))
        + Pow2(MANTISSA_BITS - 1)) \div Pow2(MANTISSA_BITS)

RandomCell(raw, bound) ==
    RoundHalfEven(raw * bound, Ulp(raw * bound, 1)) \div Pow2(MANTISSA_BITS)

(* The least raw value whose product with ARENA_WIDTH is at least c. *)
RawAbove(c) == (c * Pow2(MANTISSA_BITS)) \div ARENA_WIDTH + 1

(* The samples of random::<f32>() drawn for a food item's x and y. *)
RandX == {RawAbove(START_X), Pow2(MANTISSA_BITS) - 1}

RandY == {RawAbove(BODY_Y), RawAbove(START_Y + 1)}

----------------------------------------------------------------------------
(* snake_movement_input *)

Opposite(d) ==
    CASE d = "Left" -> "Right"
      [] d = "Right" -> "Left"
      [] d = "Up" -> "Down"
      [] d = "Down" -> "Up"

(* The tests without their guard against the opposite heading. *)
InputDirectionUnguarded(d, keys) ==
    LET d1 == IF "Left" \in keys THEN "Left" ELSE d
        d2 == IF "Right" \in keys THEN "Right" ELSE d1
        d3 == IF "Up" \in keys THEN "Up" ELSE d2
        d4 == IF "Down" \in keys THEN "Down" ELSE d3
    IN  d4

(* The tests as an else-if chain: the first test that passes ends the read. *)
InputDirectionFirstWins(d, keys) ==
    IF "Left" \in keys /\ d # "Right" THEN "Left"
    ELSE IF "Right" \in keys /\ d # "Left" THEN "Right"
    ELSE IF "Up" \in keys /\ d # "Down" THEN "Up"
    ELSE IF "Down" \in keys /\ d # "Up" THEN "Down"
    ELSE d

(* The four tests in source order, each against the heading as the earlier
   tests left it. *)
InputDirection(d, keys) ==
    LET d1 == IF "Left" \in keys /\ d # "Right" THEN "Left" ELSE d
        d2 == IF "Right" \in keys /\ d1 # "Left" THEN "Right" ELSE d1
        d3 == IF "Up" \in keys /\ d2 # "Down" THEN "Up" ELSE d2
        d4 == IF "Down" \in keys /\ d3 # "Up" THEN "Down" ELSE d3
    IN  d4

InputRead(keys) ==
    /\ ~panicked
    /\ ran = {}
    /\ ticks < MaxTicks
    /\ world' = [e \in Entity |->
                   IF e \in Heads(world)
                   THEN [world[e] EXCEPT !.direction = InputDirection(@, keys)]
                   ELSE world[e]]
    /\ UNCHANGED <<segments, foods, last_tail_position, growth_events,
                   growth_reader, game_over_events, game_over_reader,
                   commands, ran, ticks, panicked>>

snake_movement_input ==
    \E keys \in SUBSET KeyCode :
        /\ InputRead(keys)
        /\ UNCHANGED probe

----------------------------------------------------------------------------
(* spawn_snake, spawn_segment, food_spawner *)

spawn_segment(cmds, e, position) ==
    [cmds EXCEPT !.spawn = @ \cup {[ent |-> e, comp |-> SnakeBody(position)]}]

(* The head's id is reserved first, the body segment's second; both spawns
   are queued. The result is the new segment list and the command buffer. *)
spawn_snake(w, cmds) ==
    LET h == ReserveEntity(w, cmds)
        c1 == [cmds EXCEPT !.spawn = @ \cup
                 {[ent |-> h,
                   comp |-> SnakeHead(Position(START_X, START_Y), "Up")]}]
        b == ReserveEntity(w, c1)
    IN  [segments |-> <<h, b>>,
         commands |-> spawn_segment(c1, b, Position(START_X, BODY_Y))]

ApplySpawns(w, cmds) ==
    [e \in Entity |->
        IF \E s \in cmds.spawn : s.ent = e
        THEN (CHOOSE s \in cmds.spawn : s.ent = e).comp
        ELSE w[e]]

(* A despawn pass that reaches the segments without the head. *)
ApplyDespawnsKeepHead(w, cmds) ==
    [e \in Entity |->
        IF e \in cmds.despawn /\ w[e].kind # "SnakeHead"
        THEN NoEntity ELSE w[e]]

ApplyDespawns(w, cmds) ==
    [e \in Entity |-> IF e \in cmds.despawn THEN NoEntity ELSE w[e]]

ApplyFoodDespawns(fs, cmds) ==
    [p \in (DOMAIN fs) \ cmds.despawn_food |-> fs[p]]

(* The spawn is a queued command, applied at the end of the stage pass in
   which food_spawner ran, and no system of that pass sees the item: it
   appears at a tick boundary. *)
food_spawner ==
    /\ ~panicked
    /\ ran = {}
    /\ ticks < MaxTicks
    /\ FoodCount(foods) < MaxFood
    /\ Len(segments) + FoodCount(foods) < MaxLen
    /\ \E rx \in RandX, ry \in RandY :
          foods' = foods (+) SetToBag({Position(RandomCell(rx, ARENA_WIDTH),
                                               RandomCell(ry, ARENA_HEIGHT))})
    /\ UNCHANGED <<world, segments, last_tail_position, growth_events,
                   growth_reader, game_over_events, game_over_reader,
                   commands, ran, ticks, panicked, probe>>

----------------------------------------------------------------------------
(* snake_movement *)

(* The decrement with the remainder alone, which is -1 at c = 0. *)
WrapDecrementRemainder(c, bound) == RustRem(c - 1, bound)

(* The increment without the remainder. *)
WrapIncrementUnwrapped(c, bound) == c + 1

WrapDecrement(c, bound) == RustRem(RustRem(c - 1, bound) + bound, bound)

WrapIncrement(c, bound) == RustRem(c + 1, bound)

(* The match on head.direction. *)
(* The offsets of Up and Down exchanged. *)
MoveHeadFlipped(p, d) ==
    CASE d = "Left" -> [p EXCEPT !.x = WrapDecrement(p.x, ARENA_WIDTH)]
      [] d = "Right" -> [p EXCEPT !.x = WrapIncrement(p.x, ARENA_WIDTH)]
      [] d = "Up" -> [p EXCEPT !.y = WrapDecrement(p.y, ARENA_HEIGHT)]
      [] d = "Down" -> [p EXCEPT !.y = WrapIncrement(p.y, ARENA_HEIGHT)]

MoveHead(p, d) ==
    CASE d = "Left" -> [p EXCEPT !.x = WrapDecrement(p.x, ARENA_WIDTH)]
      [] d = "Right" -> [p EXCEPT !.x = WrapIncrement(p.x, ARENA_WIDTH)]
      [] d = "Up" -> [p EXCEPT !.y = WrapIncrement(p.y, ARENA_HEIGHT)]
      [] d = "Down" -> [p EXCEPT !.y = WrapDecrement(p.y, ARENA_HEIGHT)]

(* The snapshot taken before any write: the position of every entity of
   the segment list, in list order. *)
SegmentPositions(w, segs) == [i \in 1 .. Len(segs) |-> w[segs[i]].pos]

Contains(positions, p) == \E i \in 1 .. Len(positions) : positions[i] = p

(* The zip without skip(1): segment i takes the snapshot's position i. *)
ShiftBodyNoSkip(w, segs, segment_positions) ==
    [e \in Entity |->
        IF \E i \in 1 .. Len(segs) : segs[i] = e
        THEN [w[e] EXCEPT !.pos =
                 segment_positions[CHOOSE i \in 1 .. Len(segs) : segs[i] = e]]
        ELSE w[e]]

(* segment_positions.iter().zip(segments.0.iter().skip(1)): segment i + 1
   takes the snapshot's position i; the writes run in list order. *)
ShiftBody(w, segs, segment_positions) ==
    [e \in Entity |->
        IF \E i \in 2 .. Len(segs) : segs[i] = e
        THEN LET last == CHOOSE i \in 2 .. Len(segs) :
                            /\ segs[i] = e
                            /\ \A j \in 2 .. Len(segs) : segs[j] = e => j <= i
             IN  [w[e] EXCEPT !.pos = segment_positions[last - 1]]
        ELSE w[e]]

(* The test against the snapshot without its last cell, the one the tail
   leaves in the same step. *)
CollisionEventsSkipTail(segment_positions, head_pos) ==
    IF \E i \in 1 .. (Len(segment_positions) - 1) : segment_positions[i] = head_pos
    THEN 1 ELSE 0

(* One GameOverEvent if the moved head is on a cell of the snapshot. *)
CollisionEvents(segment_positions, head_pos) ==
    IF Contains(segment_positions, head_pos) THEN 1 ELSE 0

(* The record of the vacated tail cell left unwritten. *)
TailOfNone(segment_positions) == None

(* first() where the source has last(). *)
TailOfFirst(segment_positions) == Some(segment_positions[1])

TailOf(segment_positions) == Some(segment_positions[Len(segment_positions)])

snake_movement ==
    /\ ~panicked
    /\ ran = {}
    /\ ticks < MaxTicks
    /\ IF Heads(world) = {}
       THEN /\ ran' = {"movement"}
            /\ ticks' = ticks + 1
            /\ UNCHANGED <<world, segments, foods, last_tail_position,
                           growth_events, growth_reader, game_over_events,
                           game_over_reader, commands, panicked, probe>>
       ELSE IF segments = <<>> \/ \E e \in Range(segments) : e \notin Live(world)
       THEN /\ panicked' = TRUE
            /\ UNCHANGED <<world, segments, foods, last_tail_position,
                           growth_events, growth_reader, game_over_events,
                           game_over_reader, commands, ran, ticks, probe>>
       ELSE LET head_entity == Min(Heads(world))
                segment_positions == SegmentPositions(world, segments)
                head_pos == MoveHead(world[head_entity].pos,
                                     world[head_entity].direction)
                moved == [world EXCEPT ![head_entity].pos = head_pos]
            IN  /\ world' = ShiftBody(moved, segments, segment_positions)
                /\ game_over_events' = game_over_events
                       + CollisionEvents(segment_positions, head_pos)
                /\ last_tail_position' = TailOf(segment_positions)
                /\ ran' = {"movement"}
                /\ ticks' = ticks + 1
                /\ UNCHANGED <<segments, foods, growth_events, growth_reader,
                               game_over_reader, commands, panicked, probe>>

----------------------------------------------------------------------------
(* snake_eating *)

(* Every live food item on the head's cell is despawned and sends one
   GrowthEvent. *)
(* The position test left out: every food item counts as eaten. *)
FoodEatenAnywhere(fs, head_pos) == FoodCount(fs)

FoodEaten(fs, head_pos) == FoodAt(fs, head_pos)

snake_eating ==
    /\ ~panicked
    /\ "movement" \in ran
    /\ "eating" \notin ran
    /\ ran' = ran \cup {"eating"}
    /\ IF Heads(world) = {}
       THEN UNCHANGED <<growth_events, commands>>
       ELSE LET head_pos == world[Min(Heads(world))].pos
                n == FoodEaten(foods, head_pos)
            IN  /\ growth_events' = growth_events + n
                /\ commands' = [commands EXCEPT !.despawn_food =
                                   @ \cup (IF n > 0 THEN {head_pos} ELSE {})]
    /\ UNCHANGED <<world, segments, foods, last_tail_position, growth_reader,
                   game_over_events, game_over_reader, ticks, panicked, probe>>

----------------------------------------------------------------------------
(* snake_growth *)

(* A reader that passes only the event next() returned. *)
ReaderAfterNext(events, reader) ==
    IF events > reader THEN reader + 1 ELSE reader

(* EventReader::iter() passes every event sent so far, whether or not the
   iterator is then advanced. *)
ReaderAfterIter(events, reader) == events

Unread(events, reader) == events - reader

snake_growth ==
    /\ ~panicked
    /\ "eating" \in ran
    /\ "growth" \notin ran
    /\ IF Unread(growth_events, growth_reader) > 0 /\ last_tail_position = None
       THEN /\ panicked' = TRUE
            /\ UNCHANGED <<segments, commands, growth_reader, ran>>
       ELSE /\ panicked' = panicked
            /\ ran' = ran \cup {"growth"}
            /\ growth_reader' = ReaderAfterIter(growth_events, growth_reader)
            /\ IF Unread(growth_events, growth_reader) > 0
               THEN LET e == ReserveEntity(world, commands)
                    IN  /\ segments' = Append(segments, e)
                        /\ commands' = spawn_segment(commands, e,
                                                     last_tail_position)
               ELSE UNCHANGED <<segments, commands>>
    /\ UNCHANGED <<world, foods, last_tail_position, growth_events,
                   game_over_events, game_over_reader, ticks, probe>>

----------------------------------------------------------------------------
(* game_over *)

(* food.iter().chain(segments.iter()): every live food item and every live
   SnakeBody entity is despawned. *)
DespawnAll(cmds, w, fs) ==
    [cmds EXCEPT !.despawn = @ \cup Bodies(w),
                 !.despawn_food = @ \cup DOMAIN fs]

game_over ==
    /\ ~panicked
    /\ "movement" \in ran
    /\ "game_over" \notin ran
    /\ IF Unread(game_over_events, game_over_reader) > 0 /\ Heads(world) = {}
       THEN /\ panicked' = TRUE
            /\ UNCHANGED <<segments, commands, game_over_reader, ran>>
       ELSE /\ panicked' = panicked
            /\ ran' = ran \cup {"game_over"}
            /\ game_over_reader' =
                   ReaderAfterIter(game_over_events, game_over_reader)
            /\ IF Unread(game_over_events, game_over_reader) > 0
               THEN LET c1 == DespawnAll(commands, world, foods)
                        c2 == [c1 EXCEPT !.despawn = @ \cup {Min(Heads(world))}]
                        fresh == spawn_snake(world, c2)
                    IN  /\ segments' = fresh.segments
                        /\ commands' = fresh.commands
               ELSE UNCHANGED <<segments, commands>>
    /\ UNCHANGED <<world, foods, last_tail_position, growth_events,
                   growth_reader, game_over_events, ticks, probe>>

----------------------------------------------------------------------------
(* The end of the stage pass: the command buffers are applied, and the
   events every reader has passed leave the channels. *)

apply_buffers ==
    /\ ~panicked
    /\ ran = Systems
    /\ world' = ApplySpawns(ApplyDespawns(world, commands), commands)
    /\ foods' = ApplyFoodDespawns(foods, commands)
    /\ commands' = NoCommands
    /\ growth_events' = Unread(growth_events, growth_reader)
    /\ growth_reader' = 0
    /\ game_over_events' = Unread(game_over_events, game_over_reader)
    /\ game_over_reader' = 0
    /\ ran' = {}
    /\ UNCHANGED <<segments, last_tail_position, ticks, panicked, probe>>

----------------------------------------------------------------------------
(* The program from its start: setup, then spawn_snake in the game_setup
   startup stage, whose commands are applied before the first frame. *)

EmptyWorld == [e \in Entity |-> NoEntity]

Init ==
    LET fresh == spawn_snake(EmptyWorld, NoCommands)
    IN  /\ world = ApplySpawns(EmptyWorld, fresh.commands)
        /\ segments = fresh.segments
        /\ foods = EmptyBag
        /\ last_tail_position = None
        /\ growth_events = 0
        /\ growth_reader = 0
        /\ game_over_events = 0
        /\ game_over_reader = 0
        /\ commands = NoCommands
        /\ ran = {}
        /\ ticks = 0
        /\ panicked = FALSE
        /\ probe = NoProbe

Next ==
    \/ snake_movement_input
    \/ food_spawner
    \/ snake_movement
    \/ snake_eating
    \/ snake_growth
    \/ game_over
    \/ apply_buffers

Spec == Init /\ [][Next]_vars

----------------------------------------------------------------------------
(* The game at a tick boundary some time into play: a snake of 2 .. MaxLen
   segments that has just moved without growing, one fixed tick before the
   bound on ticks.  The snake is laid out from its head by the directions
   from each segment to the next; the cell its tail left lies one further
   step along the last of them. *)

Neighbour(p, d) ==
    CASE d = "Left" -> Position((p.x + ARENA_WIDTH - 1) % ARENA_WIDTH, p.y)
      [] d = "Right" -> Position((p.x + 1) % ARENA_WIDTH, p.y)
      [] d = "Up" -> Position(p.x, (p.y + 1) % ARENA_HEIGHT)
      [] d = "Down" -> Position(p.x, (p.y + ARENA_HEIGHT - 1) % ARENA_HEIGHT)

RECURSIVE LayOut(_, _)
LayOut(cells, dirs) ==
    IF dirs = <<>> THEN cells
    ELSE LayOut(Append(cells, Neighbour(cells[Len(cells)], Head(dirs))),
                Tail(dirs))

Shapes == UNION {[1 .. n -> Direction] : n \in 1 .. (MaxLen - 1)}

Cells == {Position(cx, cy) : cx \in 0 .. (ARENA_WIDTH - 1),
                             cy \in 0 .. (ARENA_HEIGHT - 1)}

Corners == {Position(0, 0), Position(START_X, START_Y),
            Position(ARENA_WIDTH - 1, ARENA_HEIGHT - 1)}

(* The cells of the snake, then the cell its tail left. *)
Trail(head, dirs) == LayOut(<<head>>, Append(dirs, dirs[Len(dirs)]))

Distinct(cells) ==
    \A i, j \in 1 .. Len(cells) : i # j => cells[i] # cells[j]

InPlay(head, dirs) ==
    /\ Distinct(Trail(head, dirs))
    /\ head \in (IF Len(dirs) = 1 THEN Cells ELSE Corners)

SnakeWorld(head, dirs) ==
    LET cells == Trail(head, dirs)
    IN  [e \in Entity |->
           IF e = 1 THEN SnakeHead(cells[1], Opposite(dirs[1]))
           ELSE IF e <= Len(dirs) + 1 THEN SnakeBody(cells[e])
           ELSE NoEntity]

InitStep ==
    /\ \E head \in Cells, dirs \in Shapes :
          /\ InPlay(head, dirs)
          /\ world = SnakeWorld(head, dirs)
          /\ segments = [i \in 1 .. (Len(dirs) + 1) |-> i]
          /\ last_tail_position = Some(Trail(head, dirs)[Len(dirs) + 2])
    /\ foods = EmptyBag
    /\ growth_events = 0
    /\ growth_reader = 0
    /\ game_over_events = 0
    /\ game_over_reader = 0
    /\ commands = NoCommands
    /\ ran = {}
    /\ ticks = MaxTicks - 1
    /\ panicked = FALSE
    /\ probe = NoProbe

SpecStep == InitStep /\ [][Next]_vars

----------------------------------------------------------------------------
(* Input reads alone, each one observed: the heading before it and the keys
   held. *)

observed_input ==
    \E keys \in SUBSET KeyCode :
        /\ InputRead(keys)
        /\ probe' = [before |-> world[Min(Heads(world))].direction,
                     keys |-> keys]

NextInput == observed_input

SpecInput == InitStep /\ [][NextInput]_vars

----------------------------------------------------------------------------
(* Properties *)

TheHead == Min(Heads(world))

Heading == world[TheHead].direction

InGrid(p) ==
    /\ 0 <= p.x /\ p.x < ARENA_WIDTH
    /\ 0 <= p.y /\ p.y < ARENA_HEIGHT

TickBoundary == ran = {}

MovementStep == ran = {} /\ ran' = {"movement"}

TickEnd == ran = Systems /\ ran' = {}

(* The state the reset is to leave: the segment list holds a head at the
   start cell heading Up and one body segment below it, these two are the
   only snake entities alive, and no food is left. *)
FreshSnake ==
    /\ Len(segments) = 2
    /\ world[segments[1]] = SnakeHead(Position(START_X, START_Y), "Up")
    /\ world[segments[2]] = SnakeBody(Position(START_X, BODY_Y))
    /\ Live(world) = Range(segments)
    /\ foods = EmptyBag

(* C1: a tick in which the self-collision signal was raised, the head landing
   on food or not, ends with a fresh 2-segment snake, head (3,3) heading Up
   and body (3,2), and with all food and every segment of the old snake
   destroyed. *)
C1_ResetLeavesFreshSnake ==
    [][(TickEnd /\ game_over_events > 0) => FreshSnake']_vars

(* C2: no movement step moves the head onto the cell segment 1 held before
   the step. *)
C2_NeverOntoNeck ==
    [][(MovementStep /\ Len(segments) >= 2)
          => world'[segments[1]].pos # world[segments[2]].pos]_vars

Observed == probe # NoProbe

(* C3: after a read with exactly one key k held, the heading is unchanged if
   k is the opposite of the heading before the read, and is k otherwise. *)
C3_SingleKey ==
    \A k \in KeyCode :
        (Observed /\ probe.keys = {k})
            => Heading = (IF k = Opposite(probe.before) THEN probe.before
                          ELSE k)

C3_Witness ==
    /\ Observed
    /\ probe.keys = {"Down"}
    /\ probe.before = "Up"
    /\ Heading = "Up"

(* C4: after one input read, whatever keys are held, the heading is never
   the exact opposite of the heading before the read. *)
C4_ReadNeverReverses == Observed => Heading # Opposite(probe.before)

CheckOrder == <<"Left", "Right", "Up", "Down">>

LastChecked(keys) ==
    CheckOrder[CHOOSE n \in 1 .. 4 :
                  /\ CheckOrder[n] \in keys
                  /\ \A m \in 1 .. 4 : CheckOrder[m] \in keys => m <= n]

(* C5 as stated: the heading after a read is the last key, in the order Left,
   Right, Up, Down, among the held keys that are not the opposite of the
   heading at the start of the read, and is unchanged if there is none. *)
C5_LastOfKeysNotOppositeAtStart ==
    Observed =>
        LET allowed == probe.keys \ {Opposite(probe.before)}
        IN  Heading = (IF allowed = {} THEN probe.before
                       ELSE LastChecked(allowed))

(* The heading in effect when the n-th key of the order is checked, by the
   amended rule itself: a held key whose opposite is not the heading in
   effect at its check replaces that heading. *)
RECURSIVE HeadingAtCheck(_, _, _)
HeadingAtCheck(h, keys, n) ==
    IF n = 1 THEN h
    ELSE LET prev == HeadingAtCheck(h, keys, n - 1)
             k == CheckOrder[n - 1]
         IN  IF k \in keys /\ prev # Opposite(k) THEN k ELSE prev

AcceptedKeys(h, keys) ==
    {CheckOrder[n] : n \in {m \in 1 .. 4 :
        /\ CheckOrder[m] \in keys
        /\ HeadingAtCheck(h, keys, m) # Opposite(CheckOrder[m])}}

(* C5 amended: the heading after a read is the last key, in the order Left,
   Right, Up, Down, among the held keys that are not the opposite of the
   heading in effect when that key is checked, which earlier keys of the
   same read may have changed; it is unchanged if there is none. *)
C5_LastAcceptedWins ==
    Observed =>
        LET accepted == AcceptedKeys(probe.before, probe.keys)
        IN  Heading = (IF accepted = {} THEN probe.before
                       ELSE LastChecked(accepted))

C5_Witness ==
    /\ Observed
    /\ probe.before = "Up"
    /\ probe.keys = {"Left", "Right"}
    /\ Heading = "Left"

(* C6: every segment position and every food position lies in
   [0,10) x [0,10). *)
C6_InBounds ==
    /\ \A e \in Live(world) : InGrid(world[e].pos)
    /\ \A p \in DOMAIN foods : InGrid(p)

(* The head has wrapped from x = 0 to the last column, where a food item
   drawn at the top of random's range lies, and the snake has grown. *)
C6_Witness ==
    /\ TickBoundary
    /\ world[TheHead].pos.x = ARENA_WIDTH - 1
    /\ world[segments[2]].pos.x = 0
    /\ Len(segments) >= 3
    /\ \E p \in DOMAIN foods : p.x = ARENA_WIDTH - 1

GrowthStep == "growth" \notin ran /\ "growth" \in ran'

GameOverStep == "game_over" \notin ran /\ "game_over" \in ran'

Moved == ran = {"movement"}

(* C7: one movement step sets the head's coordinate on the heading's axis to
   the true modulo of coordinate plus unit offset by the grid dimension, and
   leaves the other axis unchanged. *)
C7_HeadWrapsByModulo ==
    [][MovementStep =>
          LET p == world[TheHead].pos
              q == world'[TheHead].pos
              d == Heading
          IN  /\ d = "Left" => q = Position((p.x - 1) % ARENA_WIDTH, p.y)
              /\ d = "Right" => q = Position((p.x + 1) % ARENA_WIDTH, p.y)
              /\ d = "Up" => q = Position(p.x, (p.y + 1) % ARENA_HEIGHT)
              /\ d = "Down" => q = Position(p.x, (p.y - 1) % ARENA_HEIGHT)]_vars

(* The head has just moved Left out of column 0 into the last column. *)
C7_Witness ==
    /\ Moved
    /\ Heading = "Left"
    /\ world[TheHead].pos.x = ARENA_WIDTH - 1
    /\ world[segments[2]].pos.x = 0

(* C8: after one movement step every non-head segment i holds the position
   segment i - 1 held before the step, and the recorded vacated tail
   position is the position the last segment held before the step. *)
C8_BodyShift ==
    [][MovementStep =>
          /\ \A i \in 2 .. Len(segments) :
                world'[segments[i]].pos = world[segments[i - 1]].pos
          /\ last_tail_position' = world[segments[Len(segments)]].pos]_vars

(* Scenario 1: from [(3,3) Up, (3,2)] the head is at (3,4), segment 1 at
   (3,3) and the vacated tail position is (3,2). *)
C8_Witness ==
    /\ Moved
    /\ Len(segments) = 2
    /\ world[segments[1]].pos = Position(START_X, START_Y + 1)
    /\ world[segments[2]].pos = Position(START_X, START_Y)
    /\ last_tail_position = Position(START_X, BODY_Y)

(* C9: a movement step raises the game-over signal once if the new head
   position is the position any segment, the last included, held before the
   step, and not at all otherwise; when it raises it, the body is shifted
   and the vacated tail position recorded all the same. *)
C9_CollisionSignal ==
    [][MovementStep =>
          LET hit == \E i \in 1 .. Len(segments) :
                        world[segments[i]].pos = world'[TheHead].pos
          IN  /\ game_over_events' = game_over_events + (IF hit THEN 1 ELSE 0)
              /\ hit =>
                   /\ \A i \in 2 .. Len(segments) :
                         world'[segments[i]].pos = world[segments[i - 1]].pos
                   /\ last_tail_position'
                         = world[segments[Len(segments)]].pos]_vars

(* The head has moved onto the cell the last of at least four segments left
   in the same step, and the signal is raised. *)
C9_Witness ==
    /\ Moved
    /\ Len(segments) >= 4
    /\ game_over_events = 1
    /\ world[TheHead].pos = last_tail_position
    /\ \A i \in 2 .. Len(segments) : world[segments[i]].pos # world[TheHead].pos

(* C10: when snake_growth runs, the segment list grows by exactly one if
   N >= 1 food items lie at the new head cell in this tick and stays as it
   is if N = 0, so no signal of an earlier tick makes it grow; no system but
   snake_growth and the reset of game_over changes its length. *)
C10_GrowthByOne ==
    [][/\ GrowthStep =>
             LET n == FoodAt(foods, world[TheHead].pos)
             IN  Len(segments') = Len(segments) + (IF n >= 1 THEN 1 ELSE 0)
       /\ Len(segments') # Len(segments) => GrowthStep \/ GameOverStep]_vars

(* Two food items were at the new head cell, two signals were raised, and
   snake_growth has queued one segment. *)
C10_Witness ==
    /\ "growth" \in ran
    /\ "game_over" \notin ran
    /\ FoodAt(foods, world[TheHead].pos) = 2
    /\ growth_events = 2
    /\ Cardinality(commands.spawn) = 1
    /\ Len(segments) = 3

(* C11: when snake_growth appends, the new entity goes to the end of the
   segment list and is queued at the position the last segment held before
   the movement step of the same tick: snake_movement records that position
   and nothing else writes the record.  A tick with eating and no collision
   therefore ends with the snake on the new head cell followed by its
   pre-step cells. *)
C11_GrowthAtVacatedTail ==
    [][/\ MovementStep =>
             last_tail_position' = world[segments[Len(segments)]].pos
       /\ ~MovementStep => last_tail_position' = last_tail_position
       /\ (GrowthStep /\ segments' # segments) =>
             \E e \in Entity \ Live(world) :
                /\ segments' = Append(segments, e)
                /\ commands'.spawn = commands.spawn \cup
                      {[ent |-> e, comp |-> SnakeBody(last_tail_position)]}
       /\ (TickEnd /\ growth_events > 0 /\ game_over_events = 0) =>
             /\ Len(segments') = Len(segments)
             /\ \A i \in 1 .. (Len(segments) - 1) :
                   world'[segments'[i]].pos = world[segments[i]].pos
             /\ world'[segments'[Len(segments)]].pos
                   = last_tail_position]_vars

(* A tick of a 3-segment snake has ended with a fourth segment, alive at the
   recorded vacated tail position, and without a reset. *)
C11_Witness ==
    /\ TickBoundary
    /\ ticks = MaxTicks
    /\ segments = <<1, 2, 3, 4>>
    /\ Live(world) = {1, 2, 3, 4}
    /\ world[4].pos = last_tail_position

EatingStep == "eating" \notin ran /\ "eating" \in ran'

(* The food items a tick leaves when only those at cell p are taken. *)
FoodLeft(fs, fs2, p) ==
    \A q \in DOMAIN fs \cup DOMAIN fs2 :
        FoodAt(fs2, q) = IF q = p THEN 0 ELSE FoodAt(fs, q)

(* C12 as stated: eating looks at the post-move head position only; at the
   end of each tick the food items at that position are gone, one growth
   signal was raised for each, and every other food item is still there. *)
C12_OnlyFoodAtHeadRemoved ==
    [][TickEnd =>
          /\ growth_events = FoodAt(foods, world[TheHead].pos)
          /\ FoodLeft(foods, foods', world[TheHead].pos)]_vars

(* C12 amended: snake_eating runs after the movement step, raises one growth
   signal per food item at the post-move head position and queues the removal
   of those items only; the other food items outlast the tick unless the
   same tick raised the game-over signal, whose reset removes all food. *)
C12_EatingAtNewHead ==
    [][/\ EatingStep =>
             /\ "movement" \in ran
             /\ growth_events' =
                   growth_events + FoodAt(foods, world[TheHead].pos)
             /\ foods' = foods
             /\ commands'.despawn_food \ commands.despawn_food
                   \subseteq {world[TheHead].pos}
             /\ (world[TheHead].pos \in commands'.despawn_food)
                   <=> (FoodAt(foods, world[TheHead].pos) > 0
                          \/ world[TheHead].pos \in commands.despawn_food)
       /\ TickEnd =>
             /\ growth_events = FoodAt(foods, world[TheHead].pos)
             /\ IF game_over_events > 0
                THEN FoodCount(foods') = 0
                ELSE FoodLeft(foods, foods', world[TheHead].pos)]_vars

(* snake_eating has run in a tick whose head left a cell holding food: that
   item raised no signal and no removal is queued for it. *)
C12_Witness ==
    /\ "eating" \in ran
    /\ Len(segments) >= 2
    /\ segments[2] \in Live(world)
    /\ FoodAt(foods, world[segments[2]].pos) = 1
    /\ world[segments[2]].pos # world[TheHead].pos
    /\ growth_events = 0
    /\ commands.despawn_food = {}

(* game_over has replaced the segment list in this stage pass and the
   commands that despawn the old snake and spawn the new one are queued. *)
ResetPending == "game_over" \in ran /\ game_over_events > 0

(* C13 as stated: in every reachable state the segment list is non-empty,
   exactly one head entity exists, and it is the entity at index 0 of the
   list. *)
C13_HeadFirstAlways ==
    /\ Len(segments) >= 1
    /\ Cardinality(Heads(world)) = 1
    /\ segments[1] \in Heads(world)

(* C13 amended: in every reachable state the segment list is non-empty and
   exactly one head entity exists; it is the entity at index 0 of the list
   in every state except between game_over's reset and the end of that stage
   pass, so in particular at every tick boundary. *)
C13_HeadFirst ==
    /\ Len(segments) >= 1
    /\ Cardinality(Heads(world)) = 1
    /\ (~ResetPending => segments[1] \in Heads(world))
    /\ (TickBoundary => ~ResetPending)

(* A tick boundary after a reset in whose tick the snake also grew: the
   list starts with the head spawned by the reset. *)
C13_Witness ==
    /\ TickBoundary
    /\ ticks >= 1
    /\ Len(segments) = 3
    /\ segments[1] # 1
    /\ world[segments[1]] = SnakeHead(Position(START_X, START_Y), "Up")

(* What the order Movement, Eating, Growth, GameOver leaves at the end of a
   tick, computed in the last state of the stage pass: world, foods, the
   event channels and last_tail_position are as snake_movement and
   snake_eating left them.  With a game-over signal the list is the fresh
   snake's whatever growth did before; without one it is the old list and,
   after a growth signal, the new segment at the vacated tail cell. *)
StrictOrderPositions ==
    IF game_over_events > 0
    THEN <<Position(START_X, START_Y), Position(START_X, BODY_Y)>>
    ELSE [i \in 1 .. Len(segments) |->
             IF segments[i] \in Live(world)
             THEN world[segments[i]].pos ELSE last_tail_position]

(* C14: whatever order of snake_eating, snake_growth and game_over the
   declared constraints permit, the tick ends with the segment list, the
   positions and the food set that the strict order Movement, Eating, Growth,
   GameOver yields. *)
C14_OrderIndependent ==
    [][TickEnd =>
          /\ SegmentPositions(world', segments') = StrictOrderPositions
          /\ IF game_over_events > 0
             THEN FoodCount(foods') = 0
             ELSE FoodLeft(foods, foods', world[TheHead].pos)]_vars

(* C15: no unwrap or indexing failure is reachable.  No system has
   panicked; when snake_movement is about to run the segment list is
   non-empty and names live entities only; once snake_movement has run in a
   tick the vacated tail position is recorded, so snake_growth finds it; and
   a head exists in every state, so game_over finds one. *)
C15_NoPanic ==
    /\ ~panicked
    /\ TickBoundary =>
          /\ segments # <<>>
          /\ \A i \in 1 .. Len(segments) : segments[i] \in Live(world)
    /\ "movement" \in ran => last_tail_position # None
    /\ Heads(world) # {}

(* snake_movement has run on the 3-segment list that a reset followed by
   snake_growth left, whose entities were all spawned by queued commands. *)
C15_Witness ==
    /\ Moved
    /\ ticks >= 2
    /\ Len(segments) = 3
    /\ 1 \notin Range(segments)
    /\ ~panicked

(* A step of snake_movement_input that changed something. *)
InputReadStep == ran = {} /\ ran' = {} /\ world' # world

(* C16: heading changes are buffered.  An input read, of which any number
   may occur between two ticks, changes the head's direction and nothing
   else; the movement step moves the head one cell in the direction held
   when the tick runs and keeps that direction; and the heading changes in
   no step other than an input read and the end of a stage pass in which
   game_over reset the snake. *)
C16_HeadingBuffered ==
    [][/\ InputReadStep =>
             /\ \A e \in Entity :
                   /\ world'[e].kind = world[e].kind
                   /\ world'[e].pos = world[e].pos
                   /\ e \notin Heads(world) => world'[e] = world[e]
             /\ UNCHANGED <<segments, foods, last_tail_position,
                            growth_events, growth_reader, game_over_events,
                            game_over_reader, commands, ticks, panicked>>
       /\ MovementStep =>
             /\ Heads(world') = Heads(world)
             /\ world'[TheHead].pos = Neighbour(world[TheHead].pos, Heading)
             /\ world'[TheHead].direction = Heading
       /\ (Heads(world') # Heads(world) \/ Heading' # Heading) =>
             \/ InputReadStep
             \/ TickEnd /\ game_over_events > 0]_vars

(* The first tick has moved the head one cell to the left of the start
   cell: the heading set by input reads before the tick was applied. *)
C16_Witness ==
    /\ Moved
    /\ ticks = 1
    /\ Heading = "Left"
    /\ world[TheHead].pos = Position(START_X - 1, START_Y)
    /\ world[segments[2]].pos = Position(START_X, START_Y)

(* C17: a firing of food_spawner adds exactly one food item, at a cell of
   the grid, and removes none, whatever food and snake cells exist; nothing
   else adds food; and food disappears only at the end of a tick, either
   from the head's cell after snake_eating raised a growth signal or in a
   game_over reset. *)
C17_FoodSpawnsUnconditionally ==
    [][/\ (foods' # foods /\ ~TickEnd) =>
             /\ ran = {} /\ ran' = {}
             /\ \E p \in DOMAIN foods' :
                   /\ InGrid(p)
                   /\ foods' = foods (+) SetToBag({p})
             /\ UNCHANGED <<world, segments>>
       /\ TickEnd =>
             \A p \in DOMAIN foods :
                /\ FoodAt(foods', p) <= FoodAt(foods, p)
                /\ FoodAt(foods', p) < FoodAt(foods, p) =>
                      \/ p = world[TheHead].pos /\ growth_events > 0
                      \/ game_over_events > 0
       /\ TickEnd => DOMAIN foods' \subseteq DOMAIN foods]_vars

(* Two food items lie on one cell, and a snake segment occupies it. *)
C17_Witness ==
    \E e \in Live(world) :
        /\ FoodAt(foods, world[e].pos) = 2
        /\ e \in Range(segments)

Adjacent(p, q) == \E d \in Direction : q = Neighbour(p, d)

(* C18: at the end of every tick the segments of the list occupy pairwise
   distinct cells. *)
C18_DistinctCells ==
    TickBoundary => Distinct(SegmentPositions(world, segments))

(* C19: at the end of every tick each segment of the list is one step on
   one axis away from the next, a step across the grid's edge included. *)
C19_Contiguous ==
    TickBoundary =>
        \A i \in 1 .. (Len(segments) - 1) :
            Adjacent(world[segments[i]].pos, world[segments[i + 1]].pos)

(* C20: at every tick boundary the live body-segment entities are exactly
   the entities at indices 1.. of the segment list. *)
C20_BodiesAreListed ==
    TickBoundary =>
        Bodies(world) = {segments[i] : i \in 2 .. Len(segments)}

====
